---- MODULE Spec2Model ----
(***************************************************************************)
(* Authentication core of hbank-api: registration, e-mail confirmation     *)
(* codes with their rate limit, login tokens and refresh-token rotation.   *)
(*                                                                         *)
(* Time is counted in minutes (the source works in milliseconds; every     *)
(* duration it uses is a whole number of minutes).  A user row is keyed by *)
(* its e-mail, which the schema declares unique.  The e-mail code of a     *)
(* user is the row the has-one association EmailCode points to.            *)
(*                                                                         *)
(* Spec       every handler is one atomic action (sequential requests)     *)
(* SpecAccount one account under every service function (sequential        *)
(*            requests)                                                    *)
(* SpecOTP    two-factor activation (sequential requests)                  *)
(* SpecRecovery regeneration and consumption of recovery codes             *)
(* SpecDelete the handler that deletes the account of the session          *)
(* SpecFault  the service functions when a store query or the mail         *)
(*            template fails                                               *)
(* SpecVerify two requests run VerifyConfirmEmailCode statement by         *)
(*            statement                                                    *)
(* SpecSend   two requests run SendConfirmEmail statement by statement     *)
(* SpecRefresh two requests run the refresh operation concurrently         *)
(* SpecRegister two requests run Register statement by statement           *)
(* SpecActivate two requests run Activate2FAOTP statement by statement      *)
(*            next to VerifyOTPCode                                        *)
(* SpecDeleteByCode requests that send a code, statement by statement,     *)
(*            beside the routes that present one                           *)
(*                                                                         *)
(* The group store keeps membership rows, payment plans and the            *)
(* transaction log of each group.                                          *)
(*                                                                         *)
(* SpecGroup  membership and payment-plan functions run to completion      *)
(* SpecMembership two calls of the membership functions run statement by   *)
(*            statement                                                    *)
(* SpecLedger CreateTransaction run to completion                          *)
(* SpecTransfer two calls of CreateTransaction run statement by statement  *)
(***************************************************************************)
EXTENDS Integers, FiniteSets, Sequences, TLC

\* ---------------------------------------------------------------- bounds
MaxTime == 6          \* the clock stops here
MaxCode == 2          \* e-mail codes are drawn from 1..MaxCode
MaxPassword == 2      \* presented passwords are drawn from 0..MaxPassword
MaxIssued == 3        \* login/refresh tokens issued in one behaviour
MaxSecret == 2        \* OTP secrets are drawn from 1..MaxSecret
MaxBatches == 1       \* regenerations of a user's recovery codes
MaxPlans == 2         \* payment plans stored at one time
MaxEntries == 3       \* entries of the transaction log
MaxAmount == 2        \* transaction amounts are drawn from 1..MaxAmount

\* ------------------------------------------------------ program constants
EmailCodeLifetime == 5
ConfirmEmailTimeout == 2
LoginTokenLifetime == 5
RecoveryCodeCount == 10


Emails == {"a@x.com", "b@x.com"}
Procs == {1, 2}
\* the account the concurrent requests contend for
Contended == {"a@x.com"}
CodeValues == 1..MaxCode
\* 0 is the empty string, the zero value of a code column
PresentedCodes == 0..MaxCode
\* the passwords accounts are registered with
Passwords == {1}
\* 0 is the empty password
PresentedPasswords == 0..MaxPassword
TokenValues == 1..MaxIssued
\* enough row ids for every live row and every handle a request still holds
IdPool == 1..(Cardinality(Emails) + Cardinality(Procs) + 1)
Times == 1..MaxTime
OtpSecrets == 1..MaxSecret
\* the six-digit passcodes a request may present
PresentedOtpCodes == 0..MaxSecret
\* the recovery codes a request may present
PresentedRecoveryCodes == 1..(RecoveryCodeCount * (MaxBatches + 1))

\* groups and the ids of the users that act in them
Groups == {"g1", "g2"}
GroupUsers == {"u1", "u2"}
\* uuid.UUID{}, the id stored for the bank
NilUUID == "nil"
Amounts == 1..MaxAmount

NoUser == [exists |-> FALSE]
NoCode == [exists |-> FALSE]
NoMarker == -1
NoResult == [op |-> "none", email |-> "", arg |-> 0, res |-> "", out |-> 0, again |-> FALSE]

VARIABLES
    now,        \* time.Now(), in minutes
    users,      \* table users, by e-mail
    codes,      \* table email_codes, by the e-mail of the owning user
    lastSent,   \* table confirm_email_last_sents, by e-mail
    tokens,     \* table login/refresh tokens
    nextId,     \* the next fresh token value
    last,       \* the last request completed and what it returned
    sentAt,     \* history: when a SendConfirmEmail last got past the rate limit
    pc,         \* per request in flight: the statement it is at
    loc,        \* per request in flight: its local variables
    memberships,    \* table group_memberships
    paymentPlans,   \* table payment_plans
    transactionLog, \* table transaction_log_entries, in the order of created
    groupLast,      \* the last group-store call completed and its error
    groupPc,        \* per group-store call in flight: the statement it is at
    groupLoc        \* per group-store call in flight: its local variables

accountVars == <<now, users, codes, lastSent, tokens, nextId, last, sentAt, pc, loc>>
groupVars == <<memberships, paymentPlans, transactionLog, groupLast, groupPc, groupLoc>>
vars == <<accountVars, groupVars>>

\* ------------------------------------------------------------ primitives
\* bcrypt.GenerateFromPassword: one-way, never the plaintext
BcryptHash(password) == 100 + password

\* bcrypt.CompareHashAndPassword(hash, password) == nil
CompareHashAndPasswordMutant(hash, password) == TRUE
CompareHashAndPassword(hash, password) == hash = BcryptHash(password)

\* generateRecoveryCodes: RecoveryCodeCount random strings of 64 characters;
\* the strings of the batch-th batch drawn for a user, none drawn before
generateRecoveryCodes(batch) ==
    {RecoveryCodeCount * batch + i : i \in 1..RecoveryCodeCount}

\* the row Register creates: models.User{Email, PasswordHash, RecoveryCodes},
\* every other column at its zero value (0 is the empty string, the empty
\* image); RecoveryCodes and TwoFATokens are the rows of the user's has-many
\* associations, Batches counts the recovery batches drawn for the user
NewUser(password) ==
    [exists |-> TRUE, PasswordHash |-> BcryptHash(password),
     EmailConfirmed |-> FALSE, TwoFaOTPEnabled |-> FALSE,
     OtpSecret |-> 0, OtpQrCode |-> 0,
     RecoveryCodes |-> generateRecoveryCodes(0), Batches |-> 1,
     TwoFATokens |-> {}]

\* services.HashToken: the digest of a code or token, never the plaintext
HashToken(code) == 1000 + 7 * code

\* subtle.ConstantTimeCompare(a, b) == 1
ConstantTimeCompareAlways(a, b) == TRUE
ConstantTimeCompare(a, b) == a = b

\* the row a LEFT JOIN leaves in user.EmailCode when the user has no code
ZeroEmailCode == [exists |-> FALSE, Id |-> 0, Code |-> 0, ExpirationTime |-> 0]

\* db.Joins("EmailCode").First(&user, "email = ?", email): user.EmailCode
JoinedEmailCode(email) ==
    IF codes[email].exists THEN codes[email] ELSE ZeroEmailCode

\* user.EmailCode.Code == code
CodeEquals(emailCode, code) == emailCode.Code = code

\* user.EmailCode.ExpirationTime > time.Now().UnixMilli()
NotExpiredMutant(expirationTime, t) == expirationTime >= t
NotExpiredAlways(expirationTime, t) == TRUE
NotExpired(expirationTime, t) == expirationTime > t

\* time.Now().UnixMilli()-confirmEmailLastSent.LastSent < confirmEmailTimeout
RateLimitedMutant(lastSentAt, t) == t - lastSentAt <= ConfirmEmailTimeout
RateLimited(lastSentAt, t) == t - lastSentAt < ConfirmEmailTimeout

\* db.Delete(&emailCode): deletes the row with that primary key; with the
\* zero-valued key there is no condition and gorm deletes nothing
DeleteEmailCodeMutant(table, email, emailCode) == table
DeleteEmailCode(table, email, emailCode) ==
    IF table[email].exists /\ emailCode.exists /\ table[email].Id = emailCode.Id
    THEN [table EXCEPT ![email] = NoCode]
    ELSE table

\* if user.EmailCode.Code == code { ...; db.Delete(&user.EmailCode) }
CodesAfterVerifyMutant(table, email, emailCode, code) ==
    DeleteEmailCode(table, email, emailCode)
CodesAfterVerify(table, email, emailCode, code) ==
    IF CodeEquals(emailCode, code)
    THEN DeleteEmailCode(table, email, emailCode)
    ELSE table

\* db.Create(&confirmEmailLastSent) / db.Updates(&confirmEmailLastSent): the
\* marker row of the e-mail, whether or not a user has that e-mail
WriteMarkerMutant(table, email, t) ==
    IF users[email].exists THEN [table EXCEPT ![email] = t] ELSE table
WriteMarker(table, email, t) == [table EXCEPT ![email] = t]

\* if !user.EmailConfirmed { ... } else { return ErrEmailAlreadyConfirmed }
IssuesCodeMutant(user) == TRUE
IssuesCode(user) == ~user.EmailConfirmed

\* db.Model(&user).Association("EmailCode").Replace(&emailCode): the new row
\* becomes the user's code and any other row loses its link to the user
ReplaceEmailCode(table, email, emailCode) == [table EXCEPT ![email] = emailCode]

\* db.Delete(&user.EmailCode) on the row the join loaded, then Replace
IssueEmailCodeMutant(table, email, emailCode) ==
    IF table[email].exists THEN table ELSE [table EXCEPT ![email] = emailCode]
IssueEmailCode(table, email, emailCode) ==
    ReplaceEmailCode(DeleteEmailCode(table, email, JoinedEmailCode(email)),
                     email, emailCode)

\* a new primary key (uuid): different from every key in the table and from
\* every key a request has loaded
UsedIds ==
    {codes[e].Id : e \in {x \in Emails : codes[x].exists}}
        \cup {loc[p].emailCode.Id : p \in Procs}
FreshId == CHOOSE i \in IdPool : i \notin UsedIds /\ \A j \in IdPool \ UsedIds : i <= j

\* models.EmailCode{Code: code, ExpirationTime: time.Now().UnixMilli() + emailCodeLifetime}
NewEmailCode(code, t) ==
    [exists |-> TRUE, Id |-> FreshId, Code |-> code,
     ExpirationTime |-> t + EmailCodeLifetime]

\* the request just completed; again says that the request completed just
\* before it was the same request and succeeded
Result(op, email, arg, res, out) ==
    [op |-> op, email |-> email, arg |-> arg, res |-> res, out |-> out,
     again |-> /\ last.op = op /\ last.email = email /\ last.arg = arg
               /\ last.res \in {"ok", "true"}]

NoLocals ==
    [op |-> "none", email |-> "", arg |-> 0, res |-> "",
     emailCode |-> ZeroEmailCode, found |-> FALSE, lastSent |-> 0,
     confirmed |-> FALSE, at |-> 0, enabled |-> FALSE]

\* models.GroupMembership, zero-valued
ZeroMembership ==
    [Id |-> 0, GroupId |-> NilUUID, UserId |-> NilUUID,
     IsMember |-> FALSE, IsAdmin |-> FALSE]

NoGroupResult == [op |-> "none", group |-> "", user |-> "", err |-> ""]

NoGroupLocals ==
    [op |-> "none", group |-> "", user |-> "", found |-> FALSE,
     membership |-> ZeroMembership,
     senderIsBank |-> FALSE, receiverIsBank |-> FALSE,
     sender |-> NilUUID, receiver |-> NilUUID, amount |-> 0,
     newBalanceSender |-> 0, newBalanceReceiver |-> 0]

\* the group tables after migration, with no call in flight
InitGroup ==
    /\ memberships = {}
    /\ paymentPlans = {}
    /\ transactionLog = <<>>
    /\ groupLast = NoGroupResult
    /\ groupPc = [p \in Procs |-> "idle"]
    /\ groupLoc = [p \in Procs |-> NoGroupLocals]

TypeOK ==
    /\ now \in Times
    /\ nextId \in 1..(MaxIssued + 1)
    /\ \A e \in Emails : lastSent[e] \in {NoMarker} \cup Times
    /\ \A e \in Emails : codes[e].exists => codes[e].Id \in IdPool

Init ==
    /\ now = 1
    /\ users = [e \in Emails |-> NoUser]
    /\ codes = [e \in Emails |-> NoCode]
    /\ lastSent = [e \in Emails |-> NoMarker]
    /\ tokens = {}
    /\ nextId = 1
    /\ last = NoResult
    /\ sentAt = [e \in Emails |-> NoMarker]
    /\ pc = [p \in Procs |-> "idle"]
    /\ loc = [p \in Procs |-> NoLocals]
    /\ InitGroup

\* the clock
Tick ==
    /\ now < MaxTime
    /\ now' = now + 1
    /\ UNCHANGED <<users, codes, lastSent, tokens, nextId, last, sentAt, pc, loc>>
    /\ UNCHANGED groupVars

\* db.Create(&user): the unique index on the e-mail column rejects the row
\* when a user has that e-mail
InsertUserOverwrites(table, email, user) == [table EXCEPT ![email] = user]
InsertUser(table, email, user) ==
    IF table[email].exists THEN table ELSE [table EXCEPT ![email] = user]

\* ------------------------------------------------- sequential handlers
RegisterMutant(email, password) ==
    /\ users' = [users EXCEPT ![email] = NewUser(password)]
    /\ last' = Result("Register", email, password, "ok", 0)
    /\ UNCHANGED <<groupVars, now, codes, lastSent, tokens, nextId, sentAt, pc, loc>>
Register(email, password) ==
    /\ IF users[email].exists
       THEN /\ last' = Result("Register", email, password, "ErrEmailExists", 0)
            /\ UNCHANGED users
       ELSE /\ users' = InsertUser(users, email, NewUser(password))
            /\ last' = Result("Register", email, password, "ok", 0)
    /\ UNCHANGED <<groupVars, now, codes, lastSent, tokens, nextId, sentAt, pc, loc>>

\* fault says what goes wrong in the run: nothing ("none"), the query for the
\* user fails for a reason other than record-not-found ("query"), or
\* ParseEmailTemplate fails ("template"); the error is returned as it is
SendConfirmEmailWith(email, fault) ==
    /\ IF lastSent[email] # NoMarker /\ RateLimited(lastSent[email], now)
       THEN /\ last' = Result("SendConfirmEmail", email, 0, "ErrTimeout", 0)
            /\ UNCHANGED <<codes, lastSent>>
       ELSE /\ lastSent' = WriteMarker(lastSent, email, now)
            /\ IF fault = "query"
               THEN /\ last' = Result("SendConfirmEmail", email, 0, "StoreError", 0)
                    /\ UNCHANGED codes
               ELSE IF ~users[email].exists
               THEN /\ last' = Result("SendConfirmEmail", email, 0, "ErrNotFound", 0)
                    /\ UNCHANGED codes
               ELSE IF ~IssuesCode(users[email])
               THEN /\ last' = Result("SendConfirmEmail", email, 0,
                                      "ErrEmailAlreadyConfirmed", 0)
                    /\ UNCHANGED codes
               ELSE /\ \E code \in CodeValues :
                          codes' = IssueEmailCode(codes, email,
                                                  NewEmailCode(code, now))
                    /\ last' = Result("SendConfirmEmail", email, 0,
                                      IF fault = "template" THEN "TemplateError"
                                      ELSE "ok",
                                      JoinedEmailCode(email).Code)
    /\ sentAt' = IF last'.res = "ErrTimeout" THEN sentAt
                 ELSE [sentAt EXCEPT ![email] = now]
    /\ UNCHANGED <<groupVars, now, users, tokens, nextId, pc, loc>>

SendConfirmEmail(email) == SendConfirmEmailWith(email, "none")

VerifyConfirmEmailCode(email, code) ==
    /\ IF ~users[email].exists
       THEN /\ last' = Result("VerifyConfirmEmailCode", email, code, "false", 0)
            /\ UNCHANGED <<users, codes>>
       ELSE LET emailCode == JoinedEmailCode(email)
                success == CodeEquals(emailCode, code)
                           /\ NotExpired(emailCode.ExpirationTime, now)
            IN  /\ users' = IF success
                            THEN [users EXCEPT ![email].EmailConfirmed = TRUE]
                            ELSE users
                /\ codes' = CodesAfterVerify(codes, email, emailCode, code)
                /\ last' = Result("VerifyConfirmEmailCode", email, code,
                                  IF success THEN "true" ELSE "false",
                                  IF codes'[email] # codes[email]
                                  THEN emailCode.Id ELSE 0)
    /\ UNCHANGED <<groupVars, now, lastSent, tokens, nextId, sentAt, pc, loc>>

\* UserStore.GetConfirmEmailCode: the user's code row as the store keeps it,
\* holding the digest of the code that was issued
GetConfirmEmailCode(email) ==
    IF codes[email].exists
    THEN [exists |-> TRUE, Id |-> codes[email].Id,
          CodeHash |-> HashToken(codes[email].Code)]
    ELSE [exists |-> FALSE, Id |-> 0, CodeHash |-> 0]

\* UserStore.Delete: the user row goes, and with it the rows that cascade
DeleteUser(email) ==
    /\ users' = [users EXCEPT ![email] = NoUser]
    /\ codes' = [codes EXCEPT ![email] = NoCode]
    /\ tokens' = {t \in tokens : t.User # email}

\* the user is named by id in the route; a user's id and e-mail name the same row.
\* With no code row the handler dereferences nil and the request ends in a
\* panic that changes nothing.
DeleteUserByConfirmEmailCode(email, confirmEmailCode) ==
    /\ IF ~users[email].exists
       THEN /\ last' = Result("DeleteUserByConfirmEmailCode", email,
                              confirmEmailCode, "401", 0)
            /\ UNCHANGED <<users, codes, tokens>>
       ELSE LET code == GetConfirmEmailCode(email) IN
            IF ~code.exists
            THEN /\ last' = Result("DeleteUserByConfirmEmailCode", email,
                                   confirmEmailCode, "panic", 0)
                 /\ UNCHANGED <<users, codes, tokens>>
            ELSE IF ConstantTimeCompare(code.CodeHash, HashToken(confirmEmailCode))
            THEN IF ~users[email].EmailConfirmed
                 THEN /\ DeleteUser(email)
                      /\ last' = Result("DeleteUserByConfirmEmailCode", email,
                                        confirmEmailCode, "200", 0)
                 ELSE /\ codes' = DeleteEmailCode(codes, email, codes[email])
                      /\ last' = Result("DeleteUserByConfirmEmailCode", email,
                                        confirmEmailCode, "401", 0)
                      /\ UNCHANGED <<users, tokens>>
            ELSE /\ last' = Result("DeleteUserByConfirmEmailCode", email,
                                   confirmEmailCode, "401", 0)
                 /\ UNCHANGED <<users, codes, tokens>>
    /\ UNCHANGED <<groupVars, now, lastSent, nextId, sentAt, pc, loc>>

Next ==
    \/ Tick
    \/ \E e \in Emails, pw \in Passwords : Register(e, pw)
    \/ \E e \in Emails : SendConfirmEmail(e)
    \/ \E e \in Emails, c \in PresentedCodes : VerifyConfirmEmailCode(e, c)
    \/ \E e \in Emails, c \in PresentedCodes : DeleteUserByConfirmEmailCode(e, c)

Spec == Init /\ [][Next]_vars

\* ------------------------------------------------- login and refresh
\* models.LoginToken{Code: code, ExpirationTime: time.Now().UnixMilli() + loginTokenLifetime}
NewLoginTokenMutant(email, code, t) ==
    [User |-> email, Code |-> code, ExpirationTime |-> t, Used |-> FALSE]
NewLoginToken(email, code, t) ==
    [User |-> email, Code |-> code, ExpirationTime |-> t + LoginTokenLifetime,
     Used |-> FALSE]

\* user.LoginTokens = append(user.LoginTokens, token); db.Updates(&user): the
\* user was loaded without its tokens, so the one appended row is inserted
AppendLoginTokenMutant(table, token) ==
    {r \in table : r.User # token.User} \cup {token}
AppendLoginToken(table, token) == table \cup {token}

\* the loop of Login draws codes until one is not in the table: nextId
Login(email, password) ==
    /\ IF \/ ~users[email].exists
          \/ ~CompareHashAndPassword(users[email].PasswordHash, password)
       THEN /\ last' = Result("Login", email, password, "ErrInvalidCredentials", 0)
            /\ UNCHANGED <<tokens, nextId>>
       ELSE /\ nextId <= MaxIssued
            /\ tokens' = AppendLoginToken(tokens, NewLoginToken(email, nextId, now))
            /\ nextId' = nextId + 1
            /\ last' = Result("Login", email, password, "ok", nextId)
    /\ UNCHANGED <<groupVars, now, users, codes, lastSent, sentAt, pc, loc>>

\* the token rows whose stored digest is the digest of the presented token
GetRefreshToken(token) ==
    {r \in tokens : ConstantTimeCompare(HashToken(r.Code), HashToken(token))}

\* what refresh does with the presented token
RefreshOutcome(token, t) ==
    LET found == GetRefreshToken(token) IN
    IF found = {} THEN "notfound"
    ELSE LET r == CHOOSE x \in found : TRUE IN
         IF ~NotExpired(r.ExpirationTime, t) THEN "expired"
         ELSE IF r.Used THEN "reuse"
         ELSE "rotate"

\* UserStore.RotateRefreshToken: the old row is marked used and a new row is
\* stored for the same user
RotateRefreshTokenMutant(table, old, value, t) ==
    table \cup {NewLoginToken(old.User, value, t)}
RotateRefreshToken(table, old, value, t) ==
    (table \ {old}) \cup {[old EXCEPT !.Used = TRUE],
                          NewLoginToken(old.User, value, t)}

\* UserStore.DeleteRefreshTokens: every token row of the user
DeleteRefreshTokens(table, email) == {r \in table : r.User # email}

TokenOwner(token) ==
    IF GetRefreshToken(token) = {} THEN ""
    ELSE (CHOOSE x \in GetRefreshToken(token) : TRUE).User

TokensAfterRefresh(token, value, t) ==
    LET outcome == RefreshOutcome(token, t) IN
    IF outcome = "rotate"
    THEN RotateRefreshToken(tokens, CHOOSE x \in GetRefreshToken(token) : TRUE,
                            value, t)
    ELSE IF outcome = "reuse"
    THEN DeleteRefreshTokens(tokens, TokenOwner(token))
    ELSE tokens

\* refresh(oldToken), one transaction
Refresh(token) ==
    LET outcome == RefreshOutcome(token, now) IN
    /\ outcome = "rotate" => nextId <= MaxIssued
    /\ tokens' = TokensAfterRefresh(token, nextId, now)
    /\ nextId' = IF outcome = "rotate" THEN nextId + 1 ELSE nextId
    /\ last' = IF outcome = "rotate"
               THEN Result("Refresh", TokenOwner(token), token, "ok", nextId)
               ELSE Result("Refresh", TokenOwner(token), token,
                           "ErrInvalidCredentials", 0)
    /\ UNCHANGED <<groupVars, now, users, codes, lastSent, sentAt, pc, loc>>

NextToken ==
    \/ Tick
    \/ \E e \in Emails, pw \in Passwords : Register(e, pw)
    \/ \E e \in Emails, pw \in PresentedPasswords : Login(e, pw)
    \/ \E token \in TokenValues : Refresh(token)

SpecToken == Init /\ [][NextToken]_vars

\* Login when db.First fails for a reason other than record-not-found
LoginQueryFails(email, password) ==
    /\ last' = Result("Login", email, password, "ErrInvalidCredentials", 0)
    /\ UNCHANGED <<groupVars, now, users, codes, lastSent, tokens, nextId, sentAt, pc, loc>>

\* ------------------------------------------------ two-factor activation
\* the passcode of a secret at a time; the empty secret is a valid (empty) key
TotpCode(secret, t) == (secret + t) % (MaxSecret + 1)

\* totp.Validate(code, secret)
Validate(code, secret, t) == code = TotpCode(secret, t)

\* key.Image(200, 200) encoded as PNG: the image of the key with that secret
QrImage(secret) == 500 + secret

\* if !user.TwoFaOTPEnabled { user.OtpSecret = secret; user.OtpQrCode = qr;
\* Updates of two_fa_otp_enabled, otp_secret, otp_qr_code }
OtpAfterActivateRegenerates(user, secret) ==
    [user EXCEPT !.OtpSecret = secret, !.OtpQrCode = QrImage(secret)]
OtpAfterActivateEnables(user, secret) ==
    IF ~user.TwoFaOTPEnabled
    THEN [user EXCEPT !.OtpSecret = secret, !.OtpQrCode = QrImage(secret),
                      !.TwoFaOTPEnabled = TRUE]
    ELSE user
OtpAfterActivate(user, secret) ==
    IF ~user.TwoFaOTPEnabled
    THEN [user EXCEPT !.OtpSecret = secret, !.OtpQrCode = QrImage(secret)]
    ELSE user

Activate2FAOTP(email, password) ==
    /\ IF \/ ~users[email].exists
          \/ ~CompareHashAndPassword(users[email].PasswordHash, password)
       THEN /\ last' = Result("Activate2FAOTP", email, password,
                              "ErrInvalidCredentials", 0)
            /\ UNCHANGED users
       ELSE \E secret \in OtpSecrets :
              /\ users' = [users EXCEPT ![email] = OtpAfterActivate(@, secret)]
              /\ last' = Result("Activate2FAOTP", email, password, "ok",
                                users'[email].OtpQrCode)
    /\ UNCHANGED <<groupVars, now, codes, lastSent, tokens, nextId, sentAt, pc, loc>>

VerifyOTPCode(email, code) ==
    /\ IF users[email].exists /\ Validate(code, users[email].OtpSecret, now)
       THEN /\ users' = [users EXCEPT ![email].TwoFaOTPEnabled = TRUE]
            /\ last' = Result("VerifyOTPCode", email, code, "true", 0)
       ELSE /\ last' = Result("VerifyOTPCode", email, code, "false", 0)
            /\ UNCHANGED users
    /\ UNCHANGED <<groupVars, now, codes, lastSent, tokens, nextId, sentAt, pc, loc>>

\* Activate2FAOTP when the final Updates fails: nothing is written and the
\* error of the store is returned next to the image
Activate2FAOTPUpdateFails(email, password) ==
    /\ users[email].exists
    /\ CompareHashAndPassword(users[email].PasswordHash, password)
    /\ ~users[email].TwoFaOTPEnabled
    /\ \E secret \in OtpSecrets :
          last' = Result("Activate2FAOTP", email, password, "StoreError",
                         QrImage(secret))
    /\ UNCHANGED <<groupVars, now, users, codes, lastSent, tokens, nextId, sentAt, pc, loc>>

NextOTP ==
    \/ Tick
    \/ \E e \in Emails, pw \in Passwords : Register(e, pw)
    \/ \E e \in Emails, pw \in PresentedPasswords : Activate2FAOTP(e, pw)
    \/ \E e \in Emails, c \in PresentedOtpCodes : VerifyOTPCode(e, c)

SpecOTP == Init /\ [][NextOTP]_vars

\* the empty store once the accounts that used the earlier token values have
\* been deleted: one more login token can be issued
InitAccount ==
    /\ now = 1
    /\ users = [e \in Emails |-> NoUser]
    /\ codes = [e \in Emails |-> NoCode]
    /\ lastSent = [e \in Emails |-> NoMarker]
    /\ tokens = {}
    /\ nextId = MaxIssued
    /\ last = NoResult
    /\ sentAt = [e \in Emails |-> NoMarker]
    /\ pc = [p \in Procs |-> "idle"]
    /\ loc = [p \in Procs |-> NoLocals]
    /\ InitGroup

\* Register when db.First fails for a reason other than record-not-found: the
\* error is not ErrRecordNotFound
RegisterQueryFails(email, password) ==
    /\ last' = Result("Register", email, password, "ErrEmailExists", 0)
    /\ UNCHANGED <<groupVars, now, users, codes, lastSent, tokens, nextId, sentAt, pc, loc>>

\* the service functions with the store or the mail template failing
SendFaults == {"none", "query", "template"}

NextFault ==
    \/ Tick
    \/ \E e \in Contended, pw \in Passwords : Register(e, pw)
    \/ \E e \in Contended, pw \in Passwords : RegisterQueryFails(e, pw)
    \/ \E e \in Contended, fault \in SendFaults : SendConfirmEmailWith(e, fault)
    \/ \E e \in Contended, c \in PresentedCodes : VerifyConfirmEmailCode(e, c)
    \/ \E e \in Contended, pw \in Passwords : LoginQueryFails(e, pw)
    \/ \E e \in Contended, pw \in Passwords : Activate2FAOTP(e, pw)
    \/ \E e \in Contended, pw \in Passwords : Activate2FAOTPUpdateFails(e, pw)

SpecFault == Init /\ [][NextFault]_vars

\* one account under every service function
NextAccount ==
    \/ Tick
    \/ \E e \in Contended, pw \in Passwords : Register(e, pw)
    \/ \E e \in Contended : SendConfirmEmail(e)
    \/ \E e \in Contended, c \in PresentedCodes : VerifyConfirmEmailCode(e, c)
    \/ \E e \in Contended, pw \in PresentedPasswords : Login(e, pw)
    \/ \E e \in Contended, pw \in PresentedPasswords : Activate2FAOTP(e, pw)
    \/ \E e \in Contended, c \in PresentedOtpCodes : VerifyOTPCode(e, c)

SpecAccount == InitAccount /\ [][NextAccount]_vars

\* ------------------------------------------ requests running concurrently
\* request p returns res
Return(p, res) ==
    /\ pc' = [pc EXCEPT ![p] = "idle"]
    /\ loc' = [loc EXCEPT ![p].res = res]

\* the store after Register("a@x.com", 1)
InitRegistered ==
    /\ now = 1
    /\ users = [e \in Emails |->
                  IF e = "a@x.com"
                  THEN NewUser(1)
                  ELSE NoUser]
    /\ codes = [e \in Emails |-> NoCode]
    /\ lastSent = [e \in Emails |-> NoMarker]
    /\ tokens = {}
    /\ nextId = 1
    /\ last = [op |-> "Register", email |-> "a@x.com", arg |-> 1, res |-> "ok",
               out |-> 0, again |-> FALSE]
    /\ sentAt = [e \in Emails |-> NoMarker]
    /\ pc = [p \in Procs |-> "idle"]
    /\ loc = [p \in Procs |-> NoLocals]
    /\ InitGroup

\* ------------------------------------------------- deleting the account
\* a 2FA token is stored for the user once the second factor has been proved;
\* its lifetime is not set in the source at hand, so any expiration from now
\* on may be chosen
IssueTwoFAToken(email) ==
    /\ users[email].exists
    /\ \E code \in CodeValues, expirationTime \in now..MaxTime :
          /\ \A r \in users[email].TwoFATokens : r.Code # code
          /\ users' = [users EXCEPT ![email].TwoFATokens =
                           @ \cup {[Code |-> code,
                                    ExpirationTime |-> expirationTime]}]
          /\ last' = Result("IssueTwoFAToken", email, 0, "ok", code)
    /\ UNCHANGED <<groupVars, now, codes, lastSent, tokens, nextId, sentAt, pc, loc>>

\* UserStore.GetTwoFATokenByCode: the user's rows whose stored digest is the
\* digest of the presented token
GetTwoFATokenByCode(user, code) ==
    {r \in user.TwoFATokens : ConstantTimeCompare(HashToken(r.Code), HashToken(code))}

\* UserStore.DeleteTwoFAToken
DeleteTwoFAToken(user, token) == [user EXCEPT !.TwoFATokens = @ \ {token}]

\* twoFAToken.ExpirationTime < time.Now().Unix()
TwoFATokenExpiredNever(expirationTime, t) == FALSE
TwoFATokenExpired(expirationTime, t) == expirationTime < t

\* Handler.DeleteUser: the user is the one the session names
HandlerDeleteUser(email, password, twoFAToken) ==
    /\ IF ~users[email].exists
       THEN /\ last' = Result("DeleteUser", email, password, "401", twoFAToken)
            /\ UNCHANGED <<users, codes, tokens>>
       ELSE IF ~CompareHashAndPassword(users[email].PasswordHash, password)
       THEN /\ last' = Result("DeleteUser", email, password, "403", twoFAToken)
            /\ UNCHANGED <<users, codes, tokens>>
       ELSE LET found == GetTwoFATokenByCode(users[email], twoFAToken) IN
            IF found = {}
            THEN /\ last' = Result("DeleteUser", email, password, "403", twoFAToken)
                 /\ UNCHANGED <<users, codes, tokens>>
            ELSE LET token == CHOOSE r \in found : TRUE IN
                 IF TwoFATokenExpired(token.ExpirationTime, now)
                 THEN /\ users' = [users EXCEPT ![email] =
                                       DeleteTwoFAToken(@, token)]
                      /\ last' = Result("DeleteUser", email, password, "403",
                                        twoFAToken)
                      /\ UNCHANGED <<codes, tokens>>
                 ELSE /\ DeleteUser(email)
                      /\ last' = Result("DeleteUser", email, password, "200",
                                        twoFAToken)
    /\ UNCHANGED <<groupVars, now, lastSent, nextId, sentAt, pc, loc>>

NextDelete ==
    \/ Tick
    \/ \E e \in Contended, pw \in Passwords : Register(e, pw)
    \/ \E e \in Contended : IssueTwoFAToken(e)
    \/ \E e \in Contended, pw \in PresentedPasswords, c \in PresentedCodes :
          HandlerDeleteUser(e, pw, c)

SpecDelete == Init /\ [][NextDelete]_vars

\* ------------------------------------------------------ recovery codes
\* UserStore.GetRecoveryCodeByCode: the user's rows whose stored digest is the
\* digest of the presented code
GetRecoveryCodeByCode(user, code) ==
    {r \in user.RecoveryCodes : ConstantTimeCompare(HashToken(r), HashToken(code))}

\* UserStore.DeleteRecoveryCode
DeleteRecoveryCode(user, code) ==
    [user EXCEPT !.RecoveryCodes = @ \ {code}]

\* UserStore.NewRecoveryCodes: the user's rows are replaced by a new batch
NewRecoveryCodesAppends(user) ==
    [user EXCEPT !.RecoveryCodes = @ \cup generateRecoveryCodes(user.Batches),
                 !.Batches = @ + 1]
NewRecoveryCodes(user) ==
    [user EXCEPT !.RecoveryCodes = generateRecoveryCodes(user.Batches),
                 !.Batches = @ + 1]

\* the handler of twoFactor/recovery/new
HandlerNewRecoveryCodes(email) ==
    /\ users[email].exists
    /\ users[email].Batches <= MaxBatches
    /\ users' = [users EXCEPT ![email] = NewRecoveryCodes(@)]
    /\ last' = Result("NewRecoveryCodes", email, 0, "ok", users[email].Batches)
    /\ UNCHANGED <<groupVars, now, codes, lastSent, tokens, nextId, sentAt, pc, loc>>

\* the handler of twoFactor/recovery/verify: a code that is found is deleted
VerifyRecoveryCode(email, code) ==
    /\ IF users[email].exists /\ GetRecoveryCodeByCode(users[email], code) # {}
       THEN /\ users' = [users EXCEPT ![email] = DeleteRecoveryCode(@, code)]
            /\ last' = Result("VerifyRecoveryCode", email, code, "true", 0)
       ELSE /\ last' = Result("VerifyRecoveryCode", email, code, "false", 0)
            /\ UNCHANGED users
    /\ UNCHANGED <<groupVars, now, codes, lastSent, tokens, nextId, sentAt, pc, loc>>

NextRecovery ==
    \/ \E e \in Contended : HandlerNewRecoveryCodes(e)
    \/ \E e \in Contended, c \in PresentedRecoveryCodes : VerifyRecoveryCode(e, c)

SpecRecovery == InitRegistered /\ [][NextRecovery]_vars

\* --- refresh: the request arrives, then its transaction runs
RefreshBegin(p, token) ==
    /\ pc[p] = "idle"
    /\ pc' = [pc EXCEPT ![p] = "refresh"]
    /\ loc' = [loc EXCEPT ![p] = [NoLocals EXCEPT !.op = "Refresh", !.arg = token]]
    /\ UNCHANGED <<groupVars, now, users, codes, lastSent, tokens, nextId, last, sentAt>>

RefreshRotate(p) ==
    LET token == loc[p].arg
        outcome == RefreshOutcome(token, now)
    IN  /\ pc[p] = "refresh"
        /\ outcome = "rotate" => nextId <= MaxIssued
        /\ tokens' = TokensAfterRefresh(token, nextId, now)
        /\ nextId' = IF outcome = "rotate" THEN nextId + 1 ELSE nextId
        /\ pc' = [pc EXCEPT ![p] = "idle"]
        /\ loc' = [loc EXCEPT ![p].res = IF outcome = "rotate" THEN "ok"
                                         ELSE "ErrInvalidCredentials",
                              ![p].email = TokenOwner(token)]
        /\ UNCHANGED <<groupVars, now, users, codes, lastSent, last, sentAt>>

NextRefresh ==
    \/ Tick
    \/ \E e \in Contended, pw \in Passwords : Login(e, pw)
    \/ \E p \in Procs, token \in TokenValues : RefreshBegin(p, token)
    \/ \E p \in Procs : RefreshRotate(p)

SpecRefresh == InitRegistered /\ [][NextRefresh]_vars

\* --- Register, statement by statement
\* db.First(&models.User{}, "email = ?", email)
RegisterCheck(p, email, password) ==
    /\ pc[p] = "idle"
    /\ pc' = [pc EXCEPT ![p] = IF users[email].exists THEN "idle"
                               ELSE "register_create"]
    /\ loc' = [loc EXCEPT ![p] =
                 [NoLocals EXCEPT !.op = "Register", !.email = email,
                                  !.arg = password,
                                  !.res = IF users[email].exists
                                          THEN "ErrEmailExists" ELSE ""]]
    /\ UNCHANGED <<groupVars, now, users, codes, lastSent, tokens, nextId, last, sentAt>>

\* db.Create(&user), whose error is not looked at; return user.Id, nil
RegisterCreate(p) ==
    /\ pc[p] = "register_create"
    /\ users' = InsertUser(users, loc[p].email, NewUser(loc[p].arg))
    /\ Return(p, "ok")
    /\ UNCHANGED <<groupVars, now, codes, lastSent, tokens, nextId, last, sentAt>>

NextRegister ==
    \/ \E p \in Procs, e \in Emails, pw \in 1..MaxPassword :
          RegisterCheck(p, e, pw)
    \/ \E p \in Procs : RegisterCreate(p)

SpecRegister == Init /\ [][NextRegister]_vars

\* --- Activate2FAOTP, statement by statement
\* db.First(&user, "email = ?", email), the password, the test of
\* user.TwoFaOTPEnabled
ActivateLoad(p, email, password) ==
    /\ pc[p] = "idle"
    /\ LET refused == \/ ~users[email].exists
                      \/ ~CompareHashAndPassword(users[email].PasswordHash,
                                                 password)
           locals == [NoLocals EXCEPT !.op = "Activate2FAOTP",
                                      !.email = email, !.arg = password]
       IN  IF refused
           THEN /\ pc' = pc
                /\ loc' = [loc EXCEPT ![p] =
                             [locals EXCEPT !.res = "ErrInvalidCredentials"]]
           ELSE IF users[email].TwoFaOTPEnabled
           THEN /\ pc' = pc
                /\ loc' = [loc EXCEPT ![p] =
                             [locals EXCEPT !.res = "ok", !.enabled = TRUE]]
           ELSE /\ pc' = [pc EXCEPT ![p] = "activate_write"]
                /\ loc' = [loc EXCEPT ![p] = locals]
    /\ UNCHANGED <<groupVars, now, users, codes, lastSent, tokens, nextId, last, sentAt>>

\* Select("two_fa_otp_enabled", "otp_secret", "otp_qr_code").Updates(&user):
\* the three columns are written from the user the request loaded
ActivateWrite(p) ==
    /\ pc[p] = "activate_write"
    /\ \E secret \in OtpSecrets :
          users' = [users EXCEPT
                      ![loc[p].email].TwoFaOTPEnabled = loc[p].enabled,
                      ![loc[p].email].OtpSecret = secret,
                      ![loc[p].email].OtpQrCode = QrImage(secret)]
    /\ Return(p, "ok")
    /\ UNCHANGED <<groupVars, now, codes, lastSent, tokens, nextId, last, sentAt>>

NextActivate ==
    \/ Tick
    \/ \E p \in Procs, e \in Contended, pw \in PresentedPasswords :
          ActivateLoad(p, e, pw)
    \/ \E p \in Procs : ActivateWrite(p)
    \/ \E e \in Contended, c \in PresentedOtpCodes : VerifyOTPCode(e, c)

SpecActivate == InitRegistered /\ [][NextActivate]_vars

\* --- VerifyConfirmEmailCode, statement by statement
\* db.Joins("EmailCode").First(&user, "email = ?", email)
VerifyLoad(p, email, code) ==
    /\ pc[p] = "idle"
    /\ IF ~users[email].exists
       THEN /\ pc' = pc
            /\ loc' = [loc EXCEPT ![p] =
                         [NoLocals EXCEPT !.op = "VerifyConfirmEmailCode",
                                          !.email = email, !.arg = code,
                                          !.res = "false"]]
       ELSE /\ pc' = [pc EXCEPT ![p] = "verify_check"]
            /\ loc' = [loc EXCEPT ![p] =
                         [NoLocals EXCEPT !.op = "VerifyConfirmEmailCode",
                                          !.email = email, !.arg = code,
                                          !.emailCode = JoinedEmailCode(email),
                                          !.confirmed = users[email].EmailConfirmed]]
    /\ UNCHANGED <<groupVars, now, users, codes, lastSent, tokens, nextId, last, sentAt>>

\* the comparison, the expiry test and the update of email_confirmed
VerifyCheck(p) ==
    LET email == loc[p].email
        emailCode == loc[p].emailCode
    IN  /\ pc[p] = "verify_check"
        /\ IF ~CodeEquals(emailCode, loc[p].arg)
           THEN /\ Return(p, "false")
                /\ UNCHANGED users
           ELSE IF NotExpired(emailCode.ExpirationTime, now)
           THEN /\ users' = [users EXCEPT ![email].EmailConfirmed = TRUE]
                /\ pc' = [pc EXCEPT ![p] = "verify_delete"]
                /\ loc' = [loc EXCEPT ![p].res = "true"]
           ELSE /\ pc' = [pc EXCEPT ![p] = "verify_delete"]
                /\ loc' = [loc EXCEPT ![p].res = "false"]
                /\ UNCHANGED users
        /\ UNCHANGED <<groupVars, now, codes, lastSent, tokens, nextId, last, sentAt>>

\* db.Delete(&user.EmailCode); return success
VerifyDelete(p) ==
    /\ pc[p] = "verify_delete"
    /\ codes' = DeleteEmailCode(codes, loc[p].email, loc[p].emailCode)
    /\ pc' = [pc EXCEPT ![p] = "idle"]
    /\ UNCHANGED <<groupVars, now, users, lastSent, tokens, nextId, last, sentAt, loc>>

NextVerify ==
    \/ Tick
    \/ \E e \in Contended : SendConfirmEmail(e)
    \/ \E p \in Procs, e \in Contended, c \in PresentedCodes : VerifyLoad(p, e, c)
    \/ \E p \in Procs : VerifyCheck(p)
    \/ \E p \in Procs : VerifyDelete(p)

SpecVerify == InitRegistered /\ [][NextVerify]_vars

\* --- SendConfirmEmail, statement by statement
\* db.First(&confirmEmailLastSent, "email = ?", email)
SendLoadMarker(p, email) ==
    /\ pc[p] = "idle"
    /\ pc' = [pc EXCEPT ![p] = "send_check"]
    /\ loc' = [loc EXCEPT ![p] =
                 [NoLocals EXCEPT !.op = "SendConfirmEmail", !.email = email,
                                  !.found = lastSent[email] # NoMarker,
                                  !.lastSent = lastSent[email]]]
    /\ UNCHANGED <<groupVars, now, users, codes, lastSent, tokens, nextId, last, sentAt>>

\* the branch on ErrRecordNotFound, the rate-limit test and LastSent = time.Now()
SendCheck(p) ==
    /\ pc[p] = "send_check"
    /\ IF loc[p].found /\ RateLimited(loc[p].lastSent, now)
       THEN /\ Return(p, "ErrTimeout")
            /\ UNCHANGED sentAt
       ELSE /\ pc' = [pc EXCEPT ![p] = IF loc[p].found THEN "send_update"
                                       ELSE "send_create"]
            /\ loc' = [loc EXCEPT ![p].lastSent = now, ![p].at = now]
            /\ sentAt' = [sentAt EXCEPT ![loc[p].email] = now]
    /\ UNCHANGED <<groupVars, now, users, codes, lastSent, tokens, nextId, last>>

\* db.Create(&confirmEmailLastSent), which the unique e-mail column rejects
\* when a row is there by now; or db.Updates(&confirmEmailLastSent)
SendWriteMarker(p) ==
    /\ pc[p] \in {"send_create", "send_update"}
    /\ lastSent' = IF pc[p] = "send_create" /\ lastSent[loc[p].email] # NoMarker
                   THEN lastSent
                   ELSE WriteMarker(lastSent, loc[p].email, loc[p].lastSent)
    /\ pc' = [pc EXCEPT ![p] = "send_user"]
    /\ UNCHANGED <<groupVars, now, users, codes, tokens, nextId, last, sentAt, loc>>

\* db.Joins("EmailCode").First(&user, "email = ?", email) and the test of
\* user.EmailConfirmed
SendLoadUser(p) ==
    LET email == loc[p].email IN
    /\ pc[p] = "send_user"
    /\ IF ~users[email].exists
       THEN Return(p, "ErrNotFound")
       ELSE IF ~IssuesCode(users[email])
       THEN Return(p, "ErrEmailAlreadyConfirmed")
       ELSE /\ pc' = [pc EXCEPT ![p] = "send_delete"]
            /\ loc' = [loc EXCEPT ![p].emailCode = JoinedEmailCode(email)]
    /\ UNCHANGED <<groupVars, now, users, codes, lastSent, tokens, nextId, last, sentAt>>

\* db.Delete(&user.EmailCode)
SendDeleteOld(p) ==
    /\ pc[p] = "send_delete"
    /\ codes' = DeleteEmailCode(codes, loc[p].email, loc[p].emailCode)
    /\ pc' = [pc EXCEPT ![p] = "send_replace"]
    /\ UNCHANGED <<groupVars, now, users, lastSent, tokens, nextId, last, sentAt, loc>>

\* Association("EmailCode").Replace(...): the new row becomes the user's code
\* and any other row loses its link to the user; return nil
SendReplace(p) ==
    /\ pc[p] = "send_replace"
    /\ \E code \in CodeValues :
          LET emailCode == NewEmailCode(code, now) IN
          /\ codes' = ReplaceEmailCode(codes, loc[p].email, emailCode)
          /\ loc' = [loc EXCEPT ![p].emailCode = emailCode, ![p].res = "ok"]
    /\ pc' = [pc EXCEPT ![p] = "idle"]
    /\ UNCHANGED <<groupVars, now, users, lastSent, tokens, nextId, last, sentAt>>

NextSend ==
    \/ Tick
    \/ \E p \in Procs, e \in Contended : SendLoadMarker(p, e)
    \/ \E p \in Procs : SendCheck(p)
    \/ \E p \in Procs : SendWriteMarker(p)
    \/ \E p \in Procs : SendLoadUser(p)
    \/ \E p \in Procs : SendDeleteOld(p)
    \/ \E p \in Procs : SendReplace(p)

SpecSend == InitRegistered /\ [][NextSend]_vars

\* --- the confirm-email routes of RegisterApi served together: requests to
\* send a code run statement by statement beside the two routes that
\* present a code, all within one minute
NextDeleteByCode ==
    \/ \E p \in Procs, e \in Contended : SendLoadMarker(p, e)
    \/ \E p \in Procs : SendCheck(p)
    \/ \E p \in Procs : SendWriteMarker(p)
    \/ \E p \in Procs : SendLoadUser(p)
    \/ \E p \in Procs : SendDeleteOld(p)
    \/ \E p \in Procs : SendReplace(p)
    \/ \E e \in Contended, c \in PresentedCodes : VerifyConfirmEmailCode(e, c)
    \/ \E e \in Contended, c \in PresentedCodes :
          DeleteUserByConfirmEmailCode(e, c)

SpecDeleteByCode == InitRegistered /\ [][NextDeleteByCode]_vars

\* -------------------------------------------------------- the group store
\* a primary key for a new row: the least index no row of the set has
NewRowId(rows) ==
    CHOOSE i \in 1..(Cardinality(rows) + 1) :
        /\ \A r \in rows : r.Id # i
        /\ \A j \in 1..(i - 1) : \E r \in rows : r.Id = j

\* the rows "group_id = ? AND user_id = ?" selects; the pair and the Id name
\* a row
MembershipsOf(table, group, user) ==
    {m \in table : m.GroupId = group /\ m.UserId = user}

SameMembership(r, m) ==
    r.Id = m.Id /\ r.GroupId = m.GroupId /\ r.UserId = m.UserId

\* db.First(&membership, ...): the first row in primary-key order, or the
\* zero value with ErrRecordNotFound
FirstMembership(table, group, user) ==
    LET rows == MembershipsOf(table, group, user) IN
    IF rows = {} THEN ZeroMembership
    ELSE CHOOSE m \in rows : \A r \in rows : m.Id <= r.Id

\* Association("Memberships").Append(&models.GroupMembership{...})
AppendMembership(table, group, user, isMember, isAdmin) ==
    table \cup {[Id |-> NewRowId(MembershipsOf(table, group, user)),
                 GroupId |-> group, UserId |-> user,
                 IsMember |-> isMember, IsAdmin |-> isAdmin]}

\* db.Updates(&membership): every non-zero field of the struct is written to
\* the row of its primary key
UpdatesMembership(table, membership) ==
    {IF SameMembership(r, membership)
     THEN [r EXCEPT !.IsMember = r.IsMember \/ membership.IsMember,
                    !.IsAdmin = r.IsAdmin \/ membership.IsAdmin]
     ELSE r : r \in table}

\* db.Select("is_member").Updates(&membership)
UpdatesIsMember(table, membership) ==
    {IF SameMembership(r, membership)
     THEN [r EXCEPT !.IsMember = membership.IsMember]
     ELSE r : r \in table}

\* db.Select("is_admin").Updates(&membership)
UpdatesIsAdmin(table, membership) ==
    {IF SameMembership(r, membership)
     THEN [r EXCEPT !.IsAdmin = membership.IsAdmin]
     ELSE r : r \in table}

\* db.Delete(&membership)
DeleteMembership(table, membership) ==
    {r \in table : ~SameMembership(r, membership)}

\* the writes of AddMember after its db.First
AddMemberWrite(table, group, user, found, membership) ==
    IF ~found
    THEN AppendMembership(table, group, user, TRUE, FALSE)
    ELSE UpdatesMembership(table, [membership EXCEPT !.IsMember = TRUE])

\* if membership.IsAdmin: the row stays, for the admin role
RemoveMemberKeepsRowNever(membership) == FALSE
RemoveMemberKeepsRow(membership) == membership.IsAdmin

\* the writes of RemoveMember to the membership table
RemoveMemberWrite(table, membership) ==
    IF RemoveMemberKeepsRow(membership)
    THEN UpdatesIsMember(table, [membership EXCEPT !.IsMember = FALSE])
    ELSE DeleteMembership(table, membership)

\* the writes of AddAdmin after its db.First
AddAdminWrite(table, group, user, found, membership) ==
    IF ~found
    THEN AppendMembership(table, group, user, FALSE, TRUE)
    ELSE UpdatesIsAdmin(table, [membership EXCEPT !.IsAdmin = TRUE])

\* the writes of RemoveAdmin
RemoveAdminWrite(table, membership) ==
    IF membership.IsMember
    THEN UpdatesIsAdmin(table, [membership EXCEPT !.IsAdmin = FALSE])
    ELSE DeleteMembership(table, membership)

IsMember(group, user) ==
    \E m \in MembershipsOf(memberships, group, user) : m.IsMember

IsAdmin(group, user) ==
    \E m \in MembershipsOf(memberships, group, user) : m.IsAdmin

IsInGroup(group, user) ==
    \E m \in MembershipsOf(memberships, group, user) : m.IsMember \/ m.IsAdmin

\* the plans RemoveMember deletes: (group_id AND sender_id) OR (group_id AND
\* receiver_id)
PlansOfUserDeletesAllOfGroup(plan, group, user) == plan.GroupId = group
PlansOfUser(plan, group, user) ==
    \/ plan.GroupId = group /\ plan.SenderId = user
    \/ plan.GroupId = group /\ plan.ReceiverId = user

DeletePaymentPlansOf(table, group, user) ==
    {plan \in table : ~PlansOfUser(plan, group, user)}

GroupResult(op, group, user, err) ==
    [op |-> op, group |-> group, user |-> user, err |-> err]

\* --- the membership functions, each run to completion
AddMember(group, user) ==
    LET membership == FirstMembership(memberships, group, user)
        found == MembershipsOf(memberships, group, user) # {} IN
    /\ memberships' = AddMemberWrite(memberships, group, user, found, membership)
    /\ groupLast' = GroupResult("AddMember", group, user, "nil")
    /\ UNCHANGED <<accountVars, paymentPlans, transactionLog, groupPc, groupLoc>>

RemoveMember(group, user) ==
    LET membership == FirstMembership(memberships, group, user)
        found == MembershipsOf(memberships, group, user) # {} IN
    /\ IF ~found
       THEN /\ groupLast' = GroupResult("RemoveMember", group, user,
                                        "ErrRecordNotFound")
            /\ UNCHANGED <<memberships, paymentPlans>>
       ELSE /\ paymentPlans' = DeletePaymentPlansOf(paymentPlans, group, user)
            /\ memberships' = RemoveMemberWrite(memberships, membership)
            /\ groupLast' = GroupResult("RemoveMember", group, user, "nil")
    /\ UNCHANGED <<accountVars, transactionLog, groupPc, groupLoc>>

AddAdmin(group, user) ==
    LET membership == FirstMembership(memberships, group, user)
        found == MembershipsOf(memberships, group, user) # {} IN
    /\ memberships' = AddAdminWrite(memberships, group, user, found, membership)
    /\ groupLast' = GroupResult("AddAdmin", group, user, "nil")
    /\ UNCHANGED <<accountVars, paymentPlans, transactionLog, groupPc, groupLoc>>

RemoveAdmin(group, user) ==
    LET membership == FirstMembership(memberships, group, user)
        found == MembershipsOf(memberships, group, user) # {} IN
    /\ IF ~found
       THEN /\ groupLast' = GroupResult("RemoveAdmin", group, user,
                                        "ErrRecordNotFound")
            /\ UNCHANGED memberships
       ELSE /\ memberships' = RemoveAdminWrite(memberships, membership)
            /\ groupLast' = GroupResult("RemoveAdmin", group, user, "nil")
    /\ UNCHANGED <<accountVars, paymentPlans, transactionLog, groupPc, groupLoc>>

\* models.PaymentPlan{...}: the id of a party that is the bank stays zero
NewPaymentPlan(table, group, senderIsBank, receiverIsBank, sender, receiver) ==
    LET senderId == IF senderIsBank THEN NilUUID ELSE sender
        receiverId == IF receiverIsBank THEN NilUUID ELSE receiver IN
    [Id |-> NewRowId({plan \in table : /\ plan.GroupId = group
                                       /\ plan.SenderId = senderId
                                       /\ plan.ReceiverId = receiverId}),
     GroupId |-> group,
     SenderIsBank |-> senderIsBank, SenderId |-> senderId,
     ReceiverIsBank |-> receiverIsBank, ReceiverId |-> receiverId]

CreatePaymentPlan(group, senderIsBank, receiverIsBank, sender, receiver) ==
    /\ Cardinality(paymentPlans) < MaxPlans
    /\ paymentPlans' = paymentPlans \cup
           {NewPaymentPlan(paymentPlans, group, senderIsBank, receiverIsBank,
                           sender, receiver)}
    /\ groupLast' = GroupResult("CreatePaymentPlan", group, NilUUID, "nil")
    /\ UNCHANGED <<accountVars, memberships, transactionLog, groupPc, groupLoc>>

\* a party of a plan or of a transaction: a user, or the bank
Parties == GroupUsers \cup {NilUUID}

NextGroup ==
    \/ \E g \in Groups, u \in GroupUsers : AddMember(g, u)
    \/ \E g \in Groups, u \in GroupUsers : RemoveMember(g, u)
    \/ \E g \in Groups, u \in GroupUsers : AddAdmin(g, u)
    \/ \E g \in Groups, u \in GroupUsers : RemoveAdmin(g, u)

SpecGroup == Init /\ [][NextGroup]_vars

\* the user whose membership changes while payment plans exist
Leaving == {"u1"}

NextPlans ==
    \/ \E g \in Groups, u \in Leaving : AddMember(g, u)
    \/ \E g \in Groups, u \in Leaving : AddAdmin(g, u)
    \/ \E g \in Groups, u \in Leaving : RemoveMember(g, u)
    \/ \E g \in Groups, s \in Parties, r \in Parties :
          CreatePaymentPlan(g, s = NilUUID, r = NilUUID, s, r)

SpecPlans == Init /\ [][NextPlans]_vars

\* --- the membership functions, statement by statement
\* the group and the user the concurrent calls act on
SharedGroup == {"g1"}
MembershipOps == {"AddMember", "RemoveMember", "AddAdmin", "RemoveAdmin"}

GroupReturn(p, err) ==
    /\ groupLast' = GroupResult(groupLoc[p].op, groupLoc[p].group,
                                groupLoc[p].user, err)
    /\ groupPc' = [groupPc EXCEPT ![p] = "idle"]
    /\ groupLoc' = [groupLoc EXCEPT ![p] = NoGroupLocals]

\* db.First(&membership, "group_id = ? AND user_id = ?", ...) and the branch
\* on its error
MembershipFirst(p, op, group, user) ==
    LET membership == FirstMembership(memberships, group, user)
        found == MembershipsOf(memberships, group, user) # {} IN
    /\ groupPc[p] = "idle"
    /\ IF ~found /\ op \in {"RemoveMember", "RemoveAdmin"}
       THEN /\ groupLast' = GroupResult(op, group, user, "ErrRecordNotFound")
            /\ UNCHANGED <<groupPc, groupLoc>>
       ELSE /\ groupPc' = [groupPc EXCEPT ![p] =
                             IF op = "RemoveMember" THEN "remove_plans"
                             ELSE "member_write"]
            /\ groupLoc' = [groupLoc EXCEPT ![p] =
                              [NoGroupLocals EXCEPT !.op = op, !.group = group,
                                                    !.user = user,
                                                    !.found = found,
                                                    !.membership = membership]]
            /\ UNCHANGED groupLast
    /\ UNCHANGED <<accountVars, memberships, paymentPlans, transactionLog>>

\* RemoveMember: the delete of the user's payment plans
RemoveMemberDeletePlans(p) ==
    /\ groupPc[p] = "remove_plans"
    /\ paymentPlans' = DeletePaymentPlansOf(paymentPlans, groupLoc[p].group,
                                            groupLoc[p].user)
    /\ groupPc' = [groupPc EXCEPT ![p] = "member_write"]
    /\ UNCHANGED <<accountVars, memberships, transactionLog, groupLast, groupLoc>>

\* the Append, Updates or Delete the function ends with; return err
MembershipWrite(p) ==
    LET l == groupLoc[p] IN
    /\ groupPc[p] = "member_write"
    /\ memberships' =
          CASE l.op = "AddMember" ->
                 AddMemberWrite(memberships, l.group, l.user, l.found, l.membership)
            [] l.op = "RemoveMember" -> RemoveMemberWrite(memberships, l.membership)
            [] l.op = "AddAdmin" ->
                 AddAdminWrite(memberships, l.group, l.user, l.found, l.membership)
            [] l.op = "RemoveAdmin" -> RemoveAdminWrite(memberships, l.membership)
    /\ GroupReturn(p, "nil")
    /\ UNCHANGED <<accountVars, paymentPlans, transactionLog>>

NextMembership ==
    \/ \E p \in Procs, op \in MembershipOps, g \in SharedGroup, u \in Leaving :
          MembershipFirst(p, op, g, u)
    \/ \E p \in Procs : RemoveMemberDeletePlans(p)
    \/ \E p \in Procs : MembershipWrite(p)

SpecMembership == Init /\ [][NextMembership]_vars

\* --- the transaction log
NoEntry == [exists |-> FALSE]

\* the entries "(group_id AND sender_id) OR (group_id AND receiver_id)"
\* selects, by their place in the order of created
EntriesOf(log, group, user) ==
    {i \in 1..Len(log) :
        \/ log[i].GroupId = group /\ log[i].SenderId = user
        \/ log[i].GroupId = group /\ log[i].ReceiverId = user}

\* Order("created DESC") ... First(&entry); nil when there is none
GetLastTransactionLogEntry(log, group, user) ==
    LET entries == EntriesOf(log, group, user) IN
    IF entries = {} THEN NoEntry
    ELSE log[CHOOSE i \in entries : \A j \in entries : j <= i]

GetUserBalance(log, group, user) ==
    LET lastLogEntry == GetLastTransactionLogEntry(log, group, user) IN
    IF ~lastLogEntry.exists THEN 0
    ELSE IF lastLogEntry.SenderId = user
    THEN lastLogEntry.NewBalanceSender
    ELSE lastLogEntry.NewBalanceReceiver

\* newBalanceSender: 0 for the bank, else oldBalanceSender - amount
NewBalanceSender(log, group, senderIsBank, sender, amount) ==
    IF senderIsBank THEN 0 ELSE GetUserBalance(log, group, sender) - amount

\* newBalanceReceiver: 0 for the bank, else oldBalanceReceiver + amount
NewBalanceReceiver(log, group, receiverIsBank, receiver, amount) ==
    IF receiverIsBank THEN 0 ELSE GetUserBalance(log, group, receiver) + amount

\* models.TransactionLogEntry{...}: the id of a party that is the bank stays
\* zero
NewTransaction(group, senderIsBank, receiverIsBank, sender, receiver, amount, newBalanceSender, newBalanceReceiver) ==
    [exists |-> TRUE, GroupId |-> group, Amount |-> amount,
     SenderIsBank |-> senderIsBank,
     SenderId |-> IF senderIsBank THEN NilUUID ELSE sender,
     NewBalanceSender |-> newBalanceSender,
     ReceiverIsBank |-> receiverIsBank,
     ReceiverId |-> IF receiverIsBank THEN NilUUID ELSE receiver,
     NewBalanceReceiver |-> newBalanceReceiver]

CreateTransactionFromPaymentPlan(group, senderIsBank, receiverIsBank, sender, receiver, amount) ==
    /\ Len(transactionLog) < MaxEntries
    /\ transactionLog' = Append(transactionLog,
          NewTransaction(group, senderIsBank, receiverIsBank, sender, receiver,
                         amount,
                         NewBalanceSender(transactionLog, group, senderIsBank,
                                          sender, amount),
                         NewBalanceReceiver(transactionLog, group,
                                            receiverIsBank, receiver, amount)))
    /\ groupLast' = GroupResult("CreateTransaction", group, NilUUID, "nil")
    /\ UNCHANGED <<accountVars, memberships, paymentPlans, groupPc, groupLoc>>

CreateTransaction(group, senderIsBank, receiverIsBank, sender, receiver, amount) ==
    CreateTransactionFromPaymentPlan(group, senderIsBank, receiverIsBank, sender,
                                     receiver, amount)

NextLedger ==
    \E g \in Groups, s \in Parties, r \in Parties, a \in Amounts :
        CreateTransaction(g, s = NilUUID, r = NilUUID, s, r, a)

SpecLedger == Init /\ [][NextLedger]_vars

\* --- CreateTransaction, statement by statement
\* the sender's part: oldBalanceSender and newBalanceSender
TxSender(p, group, senderIsBank, receiverIsBank, sender, receiver, amount) ==
    /\ groupPc[p] = "idle"
    /\ Len(transactionLog) + Cardinality({q \in Procs : groupPc[q] # "idle"})
         < MaxEntries
    /\ groupPc' = [groupPc EXCEPT ![p] = "tx_receiver"]
    /\ groupLoc' = [groupLoc EXCEPT ![p] =
          [NoGroupLocals EXCEPT
             !.op = "CreateTransaction", !.group = group,
             !.senderIsBank = senderIsBank, !.receiverIsBank = receiverIsBank,
             !.sender = sender, !.receiver = receiver, !.amount = amount,
             !.newBalanceSender =
                 NewBalanceSender(transactionLog, group, senderIsBank, sender,
                                  amount)]]
    /\ UNCHANGED <<accountVars, memberships, paymentPlans, transactionLog, groupLast>>

\* the receiver's part: oldBalanceReceiver and newBalanceReceiver
TxReceiver(p) ==
    LET l == groupLoc[p] IN
    /\ groupPc[p] = "tx_receiver"
    /\ groupPc' = [groupPc EXCEPT ![p] = "tx_create"]
    /\ groupLoc' = [groupLoc EXCEPT ![p].newBalanceReceiver =
          NewBalanceReceiver(transactionLog, l.group, l.receiverIsBank,
                             l.receiver, l.amount)]
    /\ UNCHANGED <<accountVars, memberships, paymentPlans, transactionLog, groupLast>>

\* db.Create(&transaction); return
TxCreate(p) ==
    LET l == groupLoc[p] IN
    /\ groupPc[p] = "tx_create"
    /\ transactionLog' = Append(transactionLog,
          NewTransaction(l.group, l.senderIsBank, l.receiverIsBank, l.sender,
                         l.receiver, l.amount, l.newBalanceSender,
                         l.newBalanceReceiver))
    /\ groupLast' = GroupResult("CreateTransaction", l.group, NilUUID, "nil")
    /\ groupPc' = [groupPc EXCEPT ![p] = "idle"]
    /\ groupLoc' = [groupLoc EXCEPT ![p] = NoGroupLocals]
    /\ UNCHANGED <<accountVars, memberships, paymentPlans>>

NextTransfer ==
    \/ \E p \in Procs, g \in SharedGroup, s \in Parties, r \in Parties,
          a \in Amounts :
          TxSender(p, g, s = NilUUID, r = NilUUID, s, r, a)
    \/ \E p \in Procs : TxReceiver(p)
    \/ \E p \in Procs : TxCreate(p)

SpecTransfer == Init /\ [][NextTransfer]_vars

\* ------------------------------------------------------------- claims
IsVerify == last.op = "VerifyConfirmEmailCode"
IsSend == last.op = "SendConfirmEmail"

\* C3: the correct confirm-email code presented twice in a row succeeds at
\* most once: a successful VerifyConfirmEmailCode leaves no code behind, and
\* the same presentation made right after a successful one returns false.
C3_SecondPresentationFails ==
    IsVerify =>
        /\ (last.res = "true" => ~codes[last.email].exists /\ last.out # 0)
        /\ (last.again => last.res = "false")

C3_Witness == IsVerify /\ last.again /\ last.res = "false" /\ last.arg # 0

\* C5: a confirm-email code presented at or after its expiration time makes
\* VerifyConfirmEmailCode return false, leaves the account as it was
\* (unconfirmed) and deletes the code, although the value matches.
C5_ExpiredCodeFailsAndIsDeleted ==
    [][\A e \in Emails, c \in PresentedCodes :
         ( /\ users[e].exists /\ codes[e].exists
           /\ codes[e].Code = c /\ now >= codes[e].ExpirationTime
           /\ VerifyConfirmEmailCode(e, c) )
         => /\ last'.res = "false"
            /\ users' = users /\ ~users'[e].EmailConfirmed
            /\ ~codes'[e].exists]_vars

C5_Witness ==
    /\ IsVerify /\ last.res = "false" /\ last.out # 0
    /\ users[last.email].exists /\ ~users[last.email].EmailConfirmed
    /\ ~codes[last.email].exists

\* C6: neither VerifyConfirmEmailCode nor DeleteUserByConfirmEmailCode changes
\* an account (confirms it, deletes it) when the confirm-email code is past
\* its expiration or no longer exists.
C6_StaleCodeChangesNoAccount ==
    [][\A e \in Emails, c \in PresentedCodes :
         ( /\ ~codes[e].exists \/ now >= codes[e].ExpirationTime
           /\ VerifyConfirmEmailCode(e, c) \/ DeleteUserByConfirmEmailCode(e, c) )
         => users' = users]_vars

\* C7: VerifyConfirmEmailCode with a value that is not the user's outstanding
\* code returns false and changes nothing in the store, and the right code
\* presented while unexpired still confirms the account.
C7_MismatchChangesNothing ==
    [][\A e \in Emails, c \in PresentedCodes :
         ( users[e].exists /\ codes[e].exists /\ VerifyConfirmEmailCode(e, c) )
         => /\ c # codes[e].Code
                => /\ last'.res = "false"
                   /\ UNCHANGED <<users, codes, lastSent, tokens>>
            /\ (c = codes[e].Code /\ now < codes[e].ExpirationTime)
                => /\ last'.res = "true"
                   /\ users'[e].EmailConfirmed]_vars

C7_Witness ==
    /\ IsVerify /\ last.res = "false" /\ last.out = 0
    /\ codes[last.email].exists /\ last.arg # codes[last.email].Code
    /\ now < codes[last.email].ExpirationTime
    /\ ~users[last.email].EmailConfirmed

\* C8: for an existing unconfirmed account, SendConfirmEmail less than 2
\* minutes after the previous call that was not itself rate limited returns
\* ErrTimeout and issues no code; 2 minutes or more after it, it succeeds and
\* issues a code.
C8_RateLimitWindow ==
    [][\A e \in Emails :
         ( /\ users[e].exists /\ ~users[e].EmailConfirmed
           /\ sentAt[e] # NoMarker
           /\ SendConfirmEmail(e) )
         => /\ now - sentAt[e] < ConfirmEmailTimeout
                => last'.res = "ErrTimeout" /\ codes' = codes
            /\ now - sentAt[e] >= ConfirmEmailTimeout
                => /\ last'.res = "ok"
                   /\ codes'[e].exists
                   /\ codes'[e].ExpirationTime = now + EmailCodeLifetime]_vars

C8_Witness ==
    /\ IsSend /\ last.again /\ last.res = "ErrTimeout"
    /\ users[last.email].exists /\ ~users[last.email].EmailConfirmed
    /\ codes[last.email].exists

C2_AtMostOneRotation ==
    [][\A p \in Procs :
         ( pc[p] = "refresh" /\ RefreshRotate(p) )
         => \A q \in Procs \ {p} :
              ( /\ loc[q].op = "Refresh" /\ pc[q] = "idle"
                /\ loc[q].arg = loc[p].arg /\ loc[q].res = "ok" )
              => /\ loc'[p].res = "ErrInvalidCredentials"
                 /\ \A r \in tokens :
                      (r.Code = loc[p].arg /\ now < r.ExpirationTime)
                      => \A x \in tokens' : x.User # r.User ]_vars

C2_Witness ==
    \E p, q \in Procs :
        /\ p # q /\ pc[p] = "idle" /\ pc[q] = "idle"
        /\ loc[p].op = "Refresh" /\ loc[q].op = "Refresh"
        /\ loc[p].arg = loc[q].arg
        /\ loc[p].res = "ok" /\ loc[q].res = "ErrInvalidCredentials"
        /\ tokens = {}

\* C4: two VerifyConfirmEmailCode requests that loaded the same code row never
\* both return success.
C4_OneCodeConfirmsOnce ==
    \A p, q \in Procs :
        ( /\ p # q /\ pc[p] = "idle" /\ pc[q] = "idle"
          /\ loc[p].op = "VerifyConfirmEmailCode"
          /\ loc[q].op = "VerifyConfirmEmailCode"
          /\ loc[p].emailCode.exists
          /\ loc[p].emailCode.Id = loc[q].emailCode.Id )
        => ~(loc[p].res = "true" /\ loc[q].res = "true")

\* C9: of the SendConfirmEmail requests for one e-mail, no two get past the
\* rate-limit check less than 2 minutes apart.
C9_OnePassPerWindow ==
    [][\A p \in Procs :
         ( pc[p] = "send_check" /\ pc'[p] \in {"send_create", "send_update"} )
         => \/ sentAt[loc[p].email] = NoMarker
            \/ now - sentAt[loc[p].email] >= ConfirmEmailTimeout ]_vars

\* C10: the stored last-sent timestamp of an e-mail never decreases.
C10_LastSentMonotonic ==
    [][\A e \in Emails : lastSent'[e] >= lastSent[e]]_vars

\* C11: the rate-limit marker is kept per e-mail whether or not an account
\* has it: SendConfirmEmail for an e-mail with no account, when not rate
\* limited, returns ErrNotFound and still records the time as the marker, and
\* a call less than 2 minutes after it returns ErrTimeout, as for an account.
C11_MarkerWithoutAccount ==
    [][\A e \in Emails :
         ( ~users[e].exists /\ SendConfirmEmail(e) )
         => IF sentAt[e] # NoMarker /\ now - sentAt[e] < ConfirmEmailTimeout
            THEN last'.res = "ErrTimeout" /\ lastSent' = lastSent
            ELSE /\ last'.res = "ErrNotFound"
                 /\ lastSent'[e] = now /\ sentAt'[e] = now
                 /\ codes' = codes]_vars

C11_Witness ==
    /\ IsSend /\ last.res = "ErrTimeout"
    /\ ~users[last.email].exists /\ ~codes[last.email].exists
    /\ lastSent[last.email] # NoMarker
    /\ now - lastSent[last.email] < ConfirmEmailTimeout

\* C12: a user has at most one outstanding confirm-email code: a successful
\* SendConfirmEmail removes the row of the prior code and stores one new row
\* expiring in 5 minutes, and the superseded code, presented right after,
\* does not verify (unless the new code drawn has the same value).
C12_OneOutstandingCode ==
    [][\A e \in Emails :
         /\ ( codes[e].exists /\ SendConfirmEmail(e) /\ last'.res = "ok" )
            => /\ codes'[e].exists
               /\ codes'[e].Id # codes[e].Id
               /\ codes'[e].ExpirationTime = now + EmailCodeLifetime
               /\ last'.out = codes[e].Code
         /\ \A c \in CodeValues :
              ( /\ IsSend /\ last.res = "ok" /\ last.email = e
                /\ last.out = c /\ codes[e].Code # c
                /\ VerifyConfirmEmailCode(e, c) )
              => /\ last'.res = "false"
                 /\ users' = users /\ codes' = codes]_vars

C12_Witness ==
    /\ IsSend /\ last.res = "ok" /\ last.out # 0
    /\ codes[last.email].exists /\ codes[last.email].Code # last.out
    /\ codes[last.email].ExpirationTime = now + EmailCodeLifetime

\* C13: the store never holds the plaintext of a secret handed to a user: no
\* stored confirm-email code and no stored login token has, in its code
\* column, a value that can be issued; it holds the digest of one.
C13_OnlyHashesStored ==
    /\ \A e \in Emails :
          codes[e].exists
          => /\ codes[e].Code \notin CodeValues
             /\ \E c \in CodeValues : codes[e].Code = HashToken(c)
    /\ \A r \in tokens :
          /\ r.Code \notin TokenValues
          /\ \E c \in TokenValues : r.Code = HashToken(c)

\* C14: the e-mail confirmation state only moves forward: a confirmed account
\* stays confirmed under Register, SendConfirmEmail, VerifyConfirmEmailCode,
\* Login, Activate2FAOTP and VerifyOTPCode, and an account becomes confirmed
\* only by a VerifyConfirmEmailCode that presented its outstanding code before
\* the code's expiration.
C14_ConfirmationOnlyForward ==
    [][\A e \in Emails :
         /\ ( users[e].exists /\ users[e].EmailConfirmed )
            => ( users'[e].exists /\ users'[e].EmailConfirmed )
         /\ ( /\ users'[e].exists /\ users'[e].EmailConfirmed
              /\ ~(users[e].exists /\ users[e].EmailConfirmed) )
            => /\ last'.op = "VerifyConfirmEmailCode"
               /\ last'.email = e /\ last'.res = "true"
               /\ users[e].exists /\ codes[e].exists
               /\ codes[e].Code = last'.arg
               /\ now < codes[e].ExpirationTime]_vars

C14_Witness ==
    /\ last.op = "Register" /\ last.res = "ErrEmailExists"
    /\ users[last.email].exists /\ users[last.email].EmailConfirmed
    /\ users[last.email].TwoFaOTPEnabled
    /\ \E r \in tokens : r.User = last.email
    /\ lastSent[last.email] > 1

\* C15 as stated: SendConfirmEmail for an account that is already confirmed
\* returns ErrEmailAlreadyConfirmed and creates or replaces no code.
C15_ConfirmedAlwaysAlreadyConfirmed ==
    [][\A e \in Emails :
         ( users[e].exists /\ users[e].EmailConfirmed /\ SendConfirmEmail(e) )
         => /\ last'.res = "ErrEmailAlreadyConfirmed"
            /\ codes' = codes]_vars

\* C15 amended: SendConfirmEmail for an account that is already confirmed
\* creates or replaces no code; it returns ErrEmailAlreadyConfirmed when the
\* call is not rate limited and ErrTimeout when it is.
C15_ConfirmedIssuesNoCode ==
    [][\A e \in Emails :
         ( users[e].exists /\ users[e].EmailConfirmed /\ SendConfirmEmail(e) )
         => /\ codes' = codes
            /\ users' = users
            /\ last'.res =
                 IF sentAt[e] # NoMarker /\ now - sentAt[e] < ConfirmEmailTimeout
                 THEN "ErrTimeout" ELSE "ErrEmailAlreadyConfirmed"]_vars

C15_Witness ==
    /\ IsSend /\ last.res = "ErrEmailAlreadyConfirmed"
    /\ users[last.email].exists /\ users[last.email].EmailConfirmed
    /\ ~codes[last.email].exists
    /\ lastSent[last.email] = now

\* C16: Login with an e-mail no account has and Login with the e-mail of an
\* account but a wrong password both return ErrInvalidCredentials, and neither
\* creates or changes a login token.
C16_InvalidCredentialsAlike ==
    [][\A e \in Emails, pw \in PresentedPasswords :
         ( /\ ~users[e].exists \/ users[e].PasswordHash # BcryptHash(pw)
           /\ Login(e, pw) )
         => /\ last'.res = "ErrInvalidCredentials"
            /\ last'.out = 0
            /\ tokens' = tokens /\ nextId' = nextId]_vars

C16_Witness ==
    /\ last.op = "Login" /\ last.res = "ErrInvalidCredentials"
    /\ users[last.email].exists
    /\ users[last.email].PasswordHash # BcryptHash(last.arg)
    /\ \E r \in tokens : r.User = last.email

\* C17: a successful Login adds exactly one login token for that user,
\* expiring 5 minutes after the login, and leaves every token already in the
\* store as it was.
C17_LoginAddsOneToken ==
    [][\A e \in Emails, pw \in PresentedPasswords :
         ( Login(e, pw) /\ last'.res = "ok" )
         => /\ tokens \subseteq tokens'
            /\ Cardinality(tokens' \ tokens) = 1
            /\ \A r \in tokens' \ tokens :
                  /\ r.User = e /\ r.Code = last'.out
                  /\ r.ExpirationTime = now + LoginTokenLifetime
                  /\ \A x \in tokens : x.Code # r.Code]_vars

C17_Witness ==
    /\ last.op = "Login" /\ last.res = "ok" /\ last.again
    /\ Cardinality({r \in tokens : r.User = last.email}) >= 2
    /\ \E r \in tokens : r.User = last.email /\ r.ExpirationTime < now + LoginTokenLifetime

IsActivate == last.op = "Activate2FAOTP"

\* C18: Activate2FAOTP with an e-mail no account has, or with a wrong
\* password, returns ErrInvalidCredentials with an empty image and leaves the
\* account's OTP secret, QR code and enabled flag as they were.
C18_ActivationNeedsPassword ==
    [][\A e \in Emails, pw \in PresentedPasswords :
         ( /\ ~users[e].exists \/ users[e].PasswordHash # BcryptHash(pw)
           /\ Activate2FAOTP(e, pw) )
         => /\ last'.res = "ErrInvalidCredentials"
            /\ last'.out = 0
            /\ users' = users]_vars

C18_Witness ==
    /\ IsActivate /\ last.res = "ErrInvalidCredentials"
    /\ users[last.email].exists
    /\ users[last.email].PasswordHash # BcryptHash(last.arg)
    /\ users[last.email].OtpSecret # 0
    /\ ~users[last.email].TwoFaOTPEnabled

\* C19: once 2FA is enabled, Activate2FAOTP with the right password returns
\* the stored QR code and changes nothing: the secret stays, a repeated call
\* returns the same image, and the passcode of the secret still validates.
C19_ActivateIdempotentOnceEnabled ==
    [][\A e \in Emails, pw \in PresentedPasswords :
         ( /\ users[e].exists /\ users[e].TwoFaOTPEnabled
           /\ users[e].PasswordHash = BcryptHash(pw)
           /\ Activate2FAOTP(e, pw) )
         => /\ last'.res = "ok"
            /\ last'.out = users[e].OtpQrCode
            /\ users' = users
            /\ (IsActivate /\ last.email = e /\ last.res = "ok")
                 => last'.out = last.out
            /\ Validate(TotpCode(users[e].OtpSecret, now),
                        users'[e].OtpSecret, now)]_vars

C19_Witness ==
    /\ IsActivate /\ last.res = "ok" /\ last.again
    /\ users[last.email].TwoFaOTPEnabled
    /\ users[last.email].OtpSecret # 0
    /\ last.out = QrImage(users[last.email].OtpSecret)

\* C20: Activate2FAOTP never changes TwoFaOTPEnabled; the flag becomes true
\* only by a VerifyOTPCode whose code validates against the stored secret,
\* and a VerifyOTPCode that fails leaves the account as it was.
C20_EnabledOnlyByVerify ==
    [][\A e \in Emails :
         /\ \A pw \in PresentedPasswords :
              ( users[e].exists /\ Activate2FAOTP(e, pw) )
              => users'[e].TwoFaOTPEnabled = users[e].TwoFaOTPEnabled
         /\ ( /\ users[e].exists /\ users'[e].exists
              /\ ~users[e].TwoFaOTPEnabled /\ users'[e].TwoFaOTPEnabled )
            => /\ last'.op = "VerifyOTPCode" /\ last'.email = e
               /\ last'.res = "true"
               /\ Validate(last'.arg, users[e].OtpSecret, now)
               /\ users'[e].OtpSecret = users[e].OtpSecret
         /\ \A c \in PresentedOtpCodes :
              ( VerifyOTPCode(e, c) /\ last'.res = "false" )
              => users' = users]_vars

C20_Witness ==
    /\ last.op = "VerifyOTPCode" /\ last.res = "true"
    /\ users[last.email].TwoFaOTPEnabled
    /\ users[last.email].OtpSecret # 0
    /\ Validate(last.arg, users[last.email].OtpSecret, now)

\* C21: a user whose 2FA has never been verified (TwoFaOTPEnabled has never
\* been set) has no OTP secret stored.
C21_NoSecretBeforeVerification ==
    \A e \in Emails :
        ( users[e].exists /\ ~users[e].TwoFaOTPEnabled )
        => users[e].OtpSecret = 0

\* C22: a user holds no recovery codes before activating 2FA, and exactly 10
\* right after the first Activate2FAOTP.
C22_RecoveryCodesFromActivation ==
    \A e \in Emails :
        users[e].exists
        => /\ ( users[e].OtpSecret = 0 /\ ~users[e].TwoFaOTPEnabled )
               => users[e].RecoveryCodes = {}
           /\ ( IsActivate /\ last.email = e /\ last.res = "ok" )
               => Cardinality(users[e].RecoveryCodes) = RecoveryCodeCount

IsRegister(p) == loc[p].op = "Register"

\* C24: e-mails stay unique under any interleaving of Register calls: a
\* Register never replaces or changes the user that has the e-mail, whether it
\* finds that user in its check or only at its insert, and a Register whose
\* check finds a user returns ErrEmailExists and writes nothing.
C24_EmailStaysUnique ==
    [][/\ \A e \in Emails : users[e].exists => users'[e] = users[e]
       /\ \A p \in Procs :
            ( pc[p] = "idle" /\ IsRegister(p)' /\ loc'[p] # loc[p]
              /\ users[loc'[p].email].exists )
            => /\ loc'[p].res = "ErrEmailExists"
               /\ pc'[p] = "idle"
               /\ users' = users]_vars

C24_Witness ==
    \E p, q \in Procs :
        /\ p # q /\ pc[p] = "idle" /\ pc[q] = "idle"
        /\ IsRegister(p) /\ IsRegister(q)
        /\ loc[p].email = loc[q].email /\ loc[p].arg # loc[q].arg
        /\ loc[p].res = "ok" /\ loc[q].res = "ok"
        /\ users[loc[p].email].PasswordHash = BcryptHash(loc[p].arg)

\* C30: a Register that returns a user id with a nil error has persisted its
\* user record.
C30_SuccessMeansPersisted ==
    \A p \in Procs :
        ( pc[p] = "idle" /\ IsRegister(p) /\ loc[p].res = "ok" )
        => /\ users[loc[p].email].exists
           /\ users[loc[p].email].PasswordHash = BcryptHash(loc[p].arg)

\* the error kinds of the taxonomy, as the service functions name them
Taxonomy ==
    {"ErrInvalidCredentials", "ErrNotFound", "ErrEmailExists", "ErrTimeout",
     "ErrEmailAlreadyConfirmed"}

\* C25: every error Register, SendConfirmEmail, Login and Activate2FAOTP
\* return is a kind of the taxonomy, also when a store query fails for a
\* reason other than record-not-found, and it names what went wrong:
\* ErrEmailExists only when a user has the e-mail.
C25_ErrorsAreTaxonomyKinds ==
    last.op \in {"Register", "SendConfirmEmail", "Login", "Activate2FAOTP"}
    => /\ last.res \in Taxonomy \cup {"ok"}
       /\ ( last.op = "Register" /\ last.res = "ErrEmailExists" )
           => users[last.email].exists

\* C26: once SendConfirmEmail has stored the new code, it returns success,
\* whatever happens to the mail.
C26_PersistedMeansSuccess ==
    [][\A e \in Contended, fault \in SendFaults :
         ( codes'[e] # codes[e] /\ SendConfirmEmailWith(e, fault) )
         => last'.res = "ok"]_vars

\* C27: Handler.DeleteUser deletes the account only with the right password
\* and a 2FA token of the user that is found and not expired; a token that is
\* found is deleted, expired or not; a wrong password leaves the account and
\* its 2FA tokens as they were.
C27_DeleteNeedsPasswordAndToken ==
    [][\A e \in Contended, pw \in PresentedPasswords, c \in PresentedCodes :
         ( /\ users[e].exists
           /\ last'.op = "DeleteUser" /\ last'.arg = pw /\ last'.out = c
           /\ HandlerDeleteUser(e, pw, c) )
         => LET right == users[e].PasswordHash = BcryptHash(pw)
                found == {r \in users[e].TwoFATokens : r.Code = c}
            IN  /\ ~users'[e].exists
                   <=> ( right /\ \E r \in found : r.ExpirationTime >= now )
                /\ ( right /\ users'[e].exists )
                   => users'[e].TwoFATokens = users[e].TwoFATokens \ found
                /\ ~right => users' = users
                /\ last'.res = IF users'[e].exists THEN "403" ELSE "200"]_vars

C27_Witness ==
    /\ last.op = "DeleteUser" /\ last.res = "200"
    /\ last.out # 0 /\ last.arg \in Passwords
    /\ ~users[last.email].exists

\* C28: VerifyConfirmEmailCode on an account with no outstanding code returns
\* false and changes nothing, whatever value is presented, the empty string
\* (the code of the zero-valued row the join leaves) included.
C28_NoCodeNeverConfirms ==
    [][\A e \in Emails, c \in PresentedCodes :
         ( /\ users[e].exists /\ ~codes[e].exists
           /\ last'.op = "VerifyConfirmEmailCode" /\ last'.arg = c
           /\ VerifyConfirmEmailCode(e, c) )
         => /\ last'.res = "false"
            /\ users' = users
            /\ codes' = codes]_vars

C28_Witness ==
    /\ IsVerify /\ last.res = "false" /\ last.arg = 0
    /\ users[last.email].exists /\ ~users[last.email].EmailConfirmed
    /\ ~codes[last.email].exists
    /\ lastSent[last.email] = NoMarker

\* C29: once TwoFaOTPEnabled is true for a user it stays true and the OTP
\* secret stays the one that was verified.
C29_EnabledNeverReverts ==
    [][\A e \in Emails :
         ( users[e].exists /\ users[e].TwoFaOTPEnabled )
         => /\ users'[e].exists /\ users'[e].TwoFaOTPEnabled
            /\ users'[e].OtpSecret = users[e].OtpSecret]_vars

\* C31: DeleteUserByConfirmEmailCode deletes the account exactly when the
\* presented code is the user's stored confirm-email code and the account is
\* unconfirmed; a confirmed account is never deleted by it (a matching code is
\* deleted instead), and a code that does not match leaves the account and
\* the code as they were.
C31_DeleteByCodeOnlyUnconfirmed ==
    [][\A e \in Emails, c \in PresentedCodes :
         ( /\ users[e].exists
           /\ last'.op = "DeleteUserByConfirmEmailCode" /\ last'.arg = c
           /\ DeleteUserByConfirmEmailCode(e, c) )
         => LET matches == codes[e].exists /\ codes[e].Code = c IN
            /\ ~users'[e].exists <=> ( matches /\ ~users[e].EmailConfirmed )
            /\ ~users'[e].exists => ( last'.res = "200" /\ ~codes'[e].exists )
            /\ users[e].EmailConfirmed
                 => /\ users' = users
                    /\ matches => ~codes'[e].exists
            /\ ~matches => ( users' = users /\ codes' = codes )]_vars

C31_Witness ==
    /\ last.op = "DeleteUserByConfirmEmailCode" /\ last.res = "200"
    /\ last.arg # 0
    /\ ~users[last.email].exists /\ ~codes[last.email].exists
    /\ lastSent[last.email] # NoMarker

\* C34: after any sequence of AddMember, RemoveMember, AddAdmin and
\* RemoveAdmin calls, each run to completion, a pair of group and user has a
\* membership row exactly when the user is a member or an admin of the group:
\* at most one row per pair, none with both flags false, IsInGroup is
\* IsMember or IsAdmin, and removing one role of a user that holds both
\* keeps the other role.
C34_RowIffMemberOrAdmin ==
    [][\A g \in Groups, u \in GroupUsers :
         /\ Cardinality(MembershipsOf(memberships', g, u)) <= 1
         /\ \A m \in MembershipsOf(memberships', g, u) : m.IsMember \/ m.IsAdmin
         /\ MembershipsOf(memberships', g, u) # {}
              <=> ( IsMember(g, u)' \/ IsAdmin(g, u)' )
         /\ IsInGroup(g, u)' <=> ( IsMember(g, u)' \/ IsAdmin(g, u)' )
         /\ ( /\ IsMember(g, u) /\ IsAdmin(g, u)
              /\ groupLast'.op = "RemoveMember" /\ RemoveMember(g, u) )
              => ( IsAdmin(g, u)' /\ ~IsMember(g, u)' )
         /\ ( /\ IsMember(g, u) /\ IsAdmin(g, u)
              /\ groupLast'.op = "RemoveAdmin" /\ RemoveAdmin(g, u) )
              => ( IsMember(g, u)' /\ ~IsAdmin(g, u)' )]_vars

C34_Witness ==
    /\ groupLast.op = "RemoveMember" /\ groupLast.err = "nil"
    /\ IsAdmin(groupLast.group, groupLast.user)
    /\ ~IsMember(groupLast.group, groupLast.user)
    /\ \E g \in Groups, u \in GroupUsers :
          /\ <<g, u>> # <<groupLast.group, groupLast.user>>
          /\ IsMember(g, u) /\ ~IsAdmin(g, u)

\* C36: after a successful RemoveMember(group, user) no payment plan of that
\* group has the user as sender or receiver, and the plans of other groups
\* and the plans between other parties are unchanged; with no membership row
\* for the pair RemoveMember returns an error and deletes no plan.
C36_RemoveMemberDeletesOwnPlans ==
    [][\A g \in Groups, u \in GroupUsers :
         ( /\ groupLast'.op = "RemoveMember"
           /\ groupLast'.group = g /\ groupLast'.user = u
           /\ RemoveMember(g, u) )
         => IF MembershipsOf(memberships, g, u) = {}
            THEN /\ groupLast'.err # "nil"
                 /\ paymentPlans' = paymentPlans
                 /\ memberships' = memberships
            ELSE /\ groupLast'.err = "nil"
                 /\ \A plan \in paymentPlans' :
                       plan.GroupId = g
                         => ( plan.SenderId # u /\ plan.ReceiverId # u )
                 /\ \A plan \in paymentPlans :
                       ( \/ plan.GroupId # g
                         \/ plan.SenderId # u /\ plan.ReceiverId # u )
                         => plan \in paymentPlans'
                 /\ paymentPlans' \subseteq paymentPlans]_vars

C36_Witness ==
    /\ groupLast.op = "RemoveMember" /\ groupLast.err = "nil"
    /\ Cardinality(paymentPlans) = 1
    /\ \E plan \in paymentPlans :
          /\ plan.GroupId = groupLast.group
          /\ plan.SenderId # groupLast.user /\ plan.ReceiverId # groupLast.user
    /\ MembershipsOf(memberships, groupLast.group, groupLast.user) = {}

\* C35: when calls of AddMember, RemoveMember, AddAdmin and RemoveAdmin for
\* one pair of group and user interleave their reads and writes, the pair
\* still has at most one membership row and never a row with both flags
\* false.
C35_OneRowWithARole ==
    \A g \in Groups, u \in GroupUsers :
        /\ Cardinality(MembershipsOf(memberships, g, u)) <= 1
        /\ \A m \in MembershipsOf(memberships, g, u) : m.IsMember \/ m.IsAdmin

\* what the entries of a group's log add up to for a user: the amounts
\* received less the amounts sent
RECURSIVE LedgerSum(_, _, _)
LedgerSum(log, group, user) ==
    IF log = <<>> THEN 0
    ELSE LET e == log[Len(log)] IN
         LedgerSum(SubSeq(log, 1, Len(log) - 1), group, user)
           + (IF e.GroupId = group /\ e.ReceiverId = user THEN e.Amount ELSE 0)
           - (IF e.GroupId = group /\ e.SenderId = user THEN e.Amount ELSE 0)

\* an entry whose sender and receiver are the same user
SelfTransfers(log) ==
    {i \in 1..Len(log) : ~log[i].SenderIsBank /\ log[i].SenderId = log[i].ReceiverId}

\* C32: after any sequence of CreateTransaction calls, GetUserBalance(group,
\* user) is the sum of the amounts the user received in the group less the
\* sum of the amounts the user sent (0 with no entries), transfers with the
\* bank and transfers from a user to the same user included.
C32_BalanceIsSumOfLog ==
    \A g \in Groups, u \in GroupUsers :
        GetUserBalance(transactionLog, g, u) = LedgerSum(transactionLog, g, u)

\* C33: when CreateTransaction calls for the same user interleave, no
\* balance update is lost: with no transfer of a user to the same user in
\* the log, each balance is still the sum of the log's entries.
C33_NoLostBalanceUpdate ==
    SelfTransfers(transactionLog) = {}
      => \A g \in Groups, u \in GroupUsers :
            GetUserBalance(transactionLog, g, u) = LedgerSum(transactionLog, g, u)
====
